---- MODULE Spec2Model ----
(***************************************************************************)
(* A model of the video player of swiftstreamer:                           *)
(*   src/src/components/VideoPlayer.tsx         the player component       *)
(*   src/src/components/VideoAccessControl.tsx  the access gate            *)
(*   src/src/pages/Index.tsx                    the page mounting it       *)
(*   src/supabase/functions/get-client-ip       the edge function          *)
(*                                                                         *)
(* The React state of VideoPlayer (useState / useRef) is the state of the  *)
(* model, one action per event handler.  The media sink (the <video>       *)
(* element), the hls.js engine, the timers of the window and the platform  *)
(* fullscreen are the environment: their state is held in the variables    *)
(* named video..., engine..., timers, fullscreenElement.                   *)
(*                                                                         *)
(* Units: times are whole seconds, volumes are tenths (0..10 for 0..1),    *)
(* playback rates are hundredths (100 for 1x).                             *)
(***************************************************************************)
EXTENDS Integers, Sequences, FiniteSets, TLC

\* ---------------------------------------------------------------- bounds

\* Locators (urls) the page may be navigated to: 1..MaxLocators.
MaxLocators == 2
\* Engine instances (new Hls(...)) created in one run.
MaxSessions == 3
\* Levels a manifest may offer.
MaxLevels == 2
\* Width of the progress bar, in pixels.
BarWidth == 4
\* Media durations are BarWidth * k seconds, k in 1..MaxDurationUnits.
MaxDurationUnits == 3
\* Client addresses the edge function may see.
MaxClients == 2
\* The longest media whose times are formatted lasts MaxHours hours and 61
\* seconds.
MaxHours == 10

\* ------------------------------------------------------ program constants

\* window.setTimeout(..., 3000): the inactivity delay, in seconds.
HideDelay == 3
\* new Hls({ startLevel: -1 }): the engine's "auto" level.
AutoLevel == -1
\* useState<number>(0): the initial currentQuality.
InitialQuality == 0
\* handleSkip(10) / handleSkip(-10).
SkipSeconds == 10
\* <input type="range" min="0" max="1" step="0.1">: the top of the slider.
VolumeMax == 10
\* video.duration before the metadata is known (NaN), outside every duration.
NaN == -1

None == "none"
FatalMessage == "Failed to load video stream"
\* controlsTimeoutRef: undefined (falsy) before the first setTimeout, then
\* the identifier of the timeout armed last, pending or not.
NoTimer == 0
TimerHandle == 1

Locators == 1..MaxLocators
VolumeSteps == 0..VolumeMax
\* [0.5, 0.75, 1, 1.25, 1.5, 2].map(...)
Speeds == {50, 75, 100, 125, 150, 200}
Durations == {BarWidth * k : k \in 1..MaxDurationUnits}
\* clientX - rect.left: a click lands on the bar; e.touches[0] is the oldest
\* touch on the screen and may lie one pixel (or more) outside the bar.
SeekOffsets == (0 - 1)..(BarWidth + 1)
LevelHeight(i) == 360 * i
\* data.levels of a manifest: 0..MaxLevels levels of ascending height.
Manifests == {[i \in 1..n |-> LevelHeight(i)] : n \in 0..MaxLevels}
Clients == 1..MaxClients
AccessHours == {24, 36}

VARIABLES
    \* props
    url,
    \* useState
    isPlaying, volume, currentTime, duration, loading, error, playbackSpeed,
    showControls, qualities, currentQuality, isBuffering, isFullscreen,
    showSettings,
    \* useRef
    controlsTimeoutRef, hlsRef,
    \* the runtime: Hls.isSupported(), and whether the sink plays the source
    \* itself (video.canPlayType of the playlist type); the player asks the
    \* first only
    hlsSupported, canPlayNatively,
    \* the engines: instances created, those not destroyed, those whose
    \* manifest is parsed, the level set on the instance of hlsRef
    engineCount, liveEngines, parsedEngines, hlsCurrentLevel,
    \* the sessions whose waiting/playing listeners are on the sink
    sinkListeners,
    \* the sink
    videoPaused, videoVolume, videoCurrentTime, videoDuration, videoPlaybackRate,
    \* the window's pending timeouts and the time since the last user input
    timers, quiet,
    \* the platform fullscreen and its queued change signal
    fullscreenElement, fullscreenChangeQueued,
    \* the access gate: the rows of view_logs that have not expired, and the
    \* locators onAccessGranted was called for
    viewLogs, granted,
    \* history: the handler that ran last
    lastEvent

uiVars == <<isPlaying, volume, currentTime, duration, loading, error,
            playbackSpeed, showControls, qualities, currentQuality,
            isBuffering, isFullscreen, showSettings>>
refVars == <<controlsTimeoutRef, hlsRef>>
engineVars == <<hlsSupported, canPlayNatively, engineCount, liveEngines, parsedEngines,
                hlsCurrentLevel, sinkListeners>>
sinkVars == <<videoPaused, videoVolume, videoCurrentTime, videoDuration,
              videoPlaybackRate>>
timerVars == <<timers, quiet>>
fullscreenVars == <<fullscreenElement, fullscreenChangeQueued>>
gateVars == <<viewLogs, granted>>
vars == <<url, uiVars, refVars, engineVars, sinkVars, timerVars,
          fullscreenVars, gateVars, lastEvent>>

\* ---------------------------------------------------------------- helpers

Min(a, b) == IF a < b THEN a ELSE b
Max(a, b) == IF a > b THEN a ELSE b
Clamp(t, lo, hi) == Max(lo, Min(t, hi))

\* The main branch of the render: the container, the <video> and the control
\* strip exist only while error is null.
Rendered == error = None


NoEngine == 0

\* buffer-controller of the engine on destroy()/detachMedia(): the source is
\* removed from the sink and the sink is reloaded, so its position returns
\* to 0 and its duration is unknown again.
SinkPositionAfterDetach == 0

\* ------------------------------------------------------------------- Init

\* useEffect(..., [url]) body, lines 38-67: the engine instances that are
\* live after the effect ran with `created` telling whether new Hls() ran.
AttachEngines(live, created, id) == IF created THEN live \cup {id} ELSE live

\* hls.destroy() in the effect's cleanup, line 71.
DestroyEnginesNoDestroy(live, hls) == live
DestroyEngines(live, hls) == live \ {hls}

\* video.removeEventListener('waiting' / 'playing'), lines 69-70.
RemoveListeners(ls, hls) == ls \ {hls}

\* The state after the first render and the first run of the effects:
\* every useState at its initial value; with Hls.isSupported() the first
\* engine is created, loaded and attached.  Index mounts the player as soon
\* as the url parameter is set; nothing has been granted.  Whether the sink
\* plays the source itself matters only where the engine is not supported
\* (nothing reads it otherwise), so it is left FALSE where the engine is.
Init ==
    /\ url = 1
    /\ isPlaying = FALSE
    /\ volume = VolumeMax
    /\ currentTime = 0
    /\ duration = 0
    /\ loading = TRUE
    /\ error = None
    /\ playbackSpeed = 100
    /\ showControls = TRUE
    /\ qualities = << >>
    /\ currentQuality = InitialQuality
    /\ isBuffering = FALSE
    /\ isFullscreen = FALSE
    /\ showSettings = FALSE
    /\ controlsTimeoutRef = NoTimer
    /\ hlsSupported \in BOOLEAN
    /\ canPlayNatively \in (IF hlsSupported THEN {FALSE} ELSE BOOLEAN)
    /\ engineCount = IF hlsSupported THEN 1 ELSE 0
    /\ hlsRef = IF hlsSupported THEN 1 ELSE NoEngine
    /\ liveEngines = AttachEngines({}, hlsSupported, 1)
    /\ parsedEngines = {}
    /\ hlsCurrentLevel = AutoLevel
    /\ sinkListeners = AttachEngines({}, hlsSupported, 1)
    /\ videoPaused = TRUE
    /\ videoVolume = VolumeMax
    /\ videoCurrentTime = 0
    /\ videoDuration = NaN
    /\ videoPlaybackRate = 100
    /\ timers = {}
    /\ quiet = 0
    /\ fullscreenElement = FALSE
    /\ fullscreenChangeQueued = FALSE
    /\ viewLogs = {}
    /\ granted = {}
    /\ lastEvent = "mount"

\* ------------------------------------------------- controls visibility

\* lines 201-209 / 236-244: clearTimeout(controlsTimeoutRef.current), then
\* setTimeout(callback, 3000).  The callback closes over the isPlaying of the
\* render the handler belongs to.  A pending timeout is a record: inRef tells
\* whether controlsTimeoutRef holds its identifier, left the seconds to go.
ArmTimeoutNoClear(ts, playing) ==
    {[t EXCEPT !.inRef = FALSE] : t \in ts}
        \cup {[inRef |-> TRUE, left |-> HideDelay, isPlaying |-> playing]}
ArmTimeout(ts, playing) ==
    {t \in ts : ~t.inRef}
        \cup {[inRef |-> TRUE, left |-> HideDelay, isPlaying |-> playing]}

\* lines 205-208: what the timeout callback does to <<showControls,
\* showSettings>>; `playing` is the isPlaying it closed over.
TimeoutEffect(playing, controls, settings) ==
    IF playing THEN <<FALSE, FALSE>> ELSE <<controls, settings>>

\* onMouseMove of the container, lines 199-210.
handleMouseMove ==
    /\ Rendered
    /\ timers' = ArmTimeout(timers, isPlaying)
    /\ controlsTimeoutRef' = TimerHandle
    /\ showControls' = TRUE
    /\ quiet' = 0
    /\ lastEvent' = "handleMouseMove"
    /\ UNCHANGED <<url, isPlaying, volume, currentTime, duration, loading,
                   error, playbackSpeed, qualities, currentQuality,
                   isBuffering, isFullscreen, showSettings, hlsRef,
                   engineVars, sinkVars, fullscreenVars, gateVars>>

\* onTouchStart of the container, lines 234-245.
onTouchStart ==
    /\ Rendered
    /\ timers' = ArmTimeout(timers, isPlaying)
    /\ controlsTimeoutRef' = TimerHandle
    /\ showControls' = TRUE
    /\ quiet' = 0
    /\ lastEvent' = "onTouchStart"
    /\ UNCHANGED <<url, isPlaying, volume, currentTime, duration, loading,
                   error, playbackSpeed, qualities, currentQuality,
                   isBuffering, isFullscreen, showSettings, hlsRef,
                   engineVars, sinkVars, fullscreenVars, gateVars>>

\* An onMouseLeave that would leave the hiding to the inactivity timer.
onMouseLeaveWaits ==
    /\ Rendered
    /\ timers' = IF isPlaying THEN ArmTimeout(timers, isPlaying) ELSE timers
    /\ controlsTimeoutRef' = IF isPlaying THEN TimerHandle
                              ELSE controlsTimeoutRef
    /\ quiet' = 0
    /\ lastEvent' = "onMouseLeave"
    /\ UNCHANGED <<url, uiVars, hlsRef, engineVars, sinkVars,
                   fullscreenVars, gateVars>>

\* onMouseLeave of the container, lines 228-233.
onMouseLeave ==
    /\ Rendered
    /\ showControls' = IF isPlaying THEN FALSE ELSE showControls
    /\ showSettings' = IF isPlaying THEN FALSE ELSE showSettings
    /\ quiet' = 0
    /\ lastEvent' = "onMouseLeave"
    /\ UNCHANGED <<url, isPlaying, volume, currentTime, duration, loading,
                   error, playbackSpeed, qualities, currentQuality,
                   isBuffering, isFullscreen, refVars, engineVars, sinkVars,
                   timers, fullscreenVars, gateVars>>

\* The callback given to setTimeout, lines 204-209 / 239-244, run by the
\* window when the delay of timer t has passed.  It runs whether or not the
\* player still renders its main branch: nothing clears it.
timeoutCallback(t) ==
    /\ t \in timers
    /\ t.left = 0
    /\ timers' = timers \ {t}
    /\ LET eff == TimeoutEffect(t.isPlaying, showControls, showSettings)
       IN /\ showControls' = eff[1]
          /\ showSettings' = eff[2]
    /\ lastEvent' = "timeoutCallback"
    /\ UNCHANGED <<url, isPlaying, volume, currentTime, duration, loading,
                   error, playbackSpeed, qualities, currentQuality,
                   isBuffering, isFullscreen, refVars, engineVars, sinkVars,
                   quiet, fullscreenVars, gateVars>>

\* One second passes.  The window runs a timeout when its delay has passed,
\* so time does not move on while a callback is due.
Tick ==
    /\ \A t \in timers : t.left > 0
    /\ timers' = {[t EXCEPT !.left = t.left - 1] : t \in timers}
    /\ quiet' = Min(quiet + 1, HideDelay)
    /\ lastEvent' = "Tick"
    /\ UNCHANGED <<url, uiVars, refVars, engineVars, sinkVars,
                   fullscreenVars, gateVars>>

\* The settings button, line 363: setShowSettings(!showSettings).
toggleSettings ==
    /\ Rendered
    /\ showSettings' = ~showSettings
    /\ quiet' = 0
    /\ lastEvent' = "toggleSettings"
    /\ UNCHANGED <<url, isPlaying, volume, currentTime, duration, loading,
                   error, playbackSpeed, showControls, qualities,
                   currentQuality, isBuffering, isFullscreen, refVars,
                   engineVars, sinkVars, timers, fullscreenVars, gateVars>>

\* ------------------------------------------------------------- play / pause

\* video.play() on a sink that has ended playback seeks to the start.
PositionAfterPlay ==
    IF videoDuration # NaN /\ videoCurrentTime = videoDuration
    THEN 0 ELSE videoCurrentTime

\* handlePlayPause, lines 98-109: the click on the <video> and the play
\* button.  It reads the sink's paused flag and writes isPlaying.
handlePlayPause ==
    /\ Rendered
    /\ isPlaying' = videoPaused
    /\ videoPaused' = ~videoPaused
    /\ videoCurrentTime' = IF videoPaused THEN PositionAfterPlay
                           ELSE videoCurrentTime
    /\ quiet' = 0
    /\ lastEvent' = "handlePlayPause"
    /\ UNCHANGED <<url, volume, currentTime, duration, loading, error,
                   playbackSpeed, showControls, qualities, currentQuality,
                   isBuffering, isFullscreen, showSettings, refVars,
                   engineVars, videoVolume, videoDuration, videoPlaybackRate,
                   timers, fullscreenVars, gateVars>>

\* ---------------------------------------------------------- the session

\* The engine whose cleanup React holds: the effect returns a cleanup only
\* after it created an engine (lines 68-72), and only the cleanup destroys.
CleanupTarget == IF hlsRef \in liveEngines THEN hlsRef ELSE NoEngine

\* lines 50-53: data.levels.map((level, index) => ({height, level: index})).
AvailableQualities(m) ==
    [i \in 1..Len(m) |-> [height |-> m[i], level |-> i - 1]]

\* The url prop changes to u: React runs the cleanup of the previous run of
\* useEffect(..., [url]) (lines 68-72), then the effect again (lines 31-67).
\* No useState is reset.  hls.destroy() detaches the sink, which reloads:
\* it is paused, at position 0, of unknown duration, at the default rate.
urlChange(u) ==
    LET old == CleanupTarget
        created == Rendered /\ hlsSupported
        id == engineCount + 1
        kept == IF old = NoEngine THEN liveEngines
                ELSE DestroyEngines(liveEngines, old)
        keptListeners == IF old = NoEngine THEN sinkListeners
                         ELSE RemoveListeners(sinkListeners, old)
    IN /\ u \in Locators
       /\ u # url
       /\ created => engineCount < MaxSessions
       /\ url' = u
       /\ liveEngines' = AttachEngines(kept, created, id)
       /\ sinkListeners' = AttachEngines(keptListeners, created, id)
       /\ parsedEngines' = parsedEngines \cap kept
       /\ engineCount' = IF created THEN id ELSE engineCount
       /\ hlsRef' = IF created THEN id ELSE hlsRef
       /\ hlsCurrentLevel' = IF created THEN AutoLevel ELSE hlsCurrentLevel
       /\ videoPaused' = IF old # NoEngine THEN TRUE ELSE videoPaused
       /\ videoCurrentTime' = IF old # NoEngine THEN SinkPositionAfterDetach
                              ELSE videoCurrentTime
       /\ videoDuration' = IF old # NoEngine THEN NaN ELSE videoDuration
       /\ videoPlaybackRate' = IF old # NoEngine THEN 100
                               ELSE videoPlaybackRate
       /\ lastEvent' = "urlChange"
       /\ UNCHANGED <<uiVars, controlsTimeoutRef, hlsSupported,
                      canPlayNatively, videoVolume, timerVars,
                      fullscreenVars, gateVars>>

\* hls.on(Hls.Events.MANIFEST_PARSED, ...), lines 49-56, for the manifest m
\* of engine e.  An engine parses its manifest once, and a destroyed engine
\* delivers nothing.
manifestParsed(e, m) ==
    /\ e \in liveEngines
    /\ e \notin parsedEngines
    /\ parsedEngines' = parsedEngines \cup {e}
    /\ qualities' = AvailableQualities(m)
    /\ loading' = FALSE
    /\ lastEvent' = "manifestParsed"
    /\ UNCHANGED <<url, isPlaying, volume, currentTime, duration, error,
                   playbackSpeed, showControls, currentQuality, isBuffering,
                   isFullscreen, showSettings, refVars, hlsSupported,
                   canPlayNatively, engineCount, liveEngines,
                   hlsCurrentLevel, sinkListeners, sinkVars, timerVars,
                   fullscreenVars, gateVars>>

\* lines 59-62: what the ERROR handler does to <<error, loading>>.
ErrorEffectClears(fatal, err, ld) ==
    IF fatal THEN <<FatalMessage, FALSE>> ELSE <<None, ld>>
\* An ERROR handler that would take every error of the engine for fatal.
ErrorEffectAlways(fatal, err, ld) == <<FatalMessage, FALSE>>
ErrorEffect(fatal, err, ld) ==
    IF fatal THEN <<FatalMessage, FALSE>> ELSE <<err, ld>>

\* hls.on(Hls.Events.ERROR, ...), lines 58-63, for an error of engine e.
\* With the error set the render returns the error branch (lines 212-218):
\* the <video> leaves the document, which pauses it.
engineError(e, fatal) ==
    /\ e \in liveEngines
    /\ LET eff == ErrorEffect(fatal, error, loading)
       IN /\ error' = eff[1]
          /\ loading' = eff[2]
    /\ videoPaused' = IF fatal /\ Rendered THEN TRUE ELSE videoPaused
    /\ lastEvent' = IF fatal THEN "fatalError" ELSE "nonFatalError"
    /\ UNCHANGED <<url, isPlaying, volume, currentTime, duration,
                   playbackSpeed, showControls, qualities, currentQuality,
                   isBuffering, isFullscreen, showSettings, refVars,
                   engineVars, videoVolume, videoCurrentTime, videoDuration,
                   videoPlaybackRate, timerVars, fullscreenVars, gateVars>>

\* A handleWaiting that would take the stall of the sink for a pause.
handleWaitingPauses(s) ==
    /\ s \in sinkListeners
    /\ isBuffering' = TRUE
    /\ isPlaying' = FALSE
    /\ lastEvent' = "handleWaiting"
    /\ UNCHANGED <<url, volume, currentTime, duration, loading, error,
                   playbackSpeed, showControls, qualities, currentQuality,
                   isFullscreen, showSettings, refVars, engineVars, sinkVars,
                   timerVars, fullscreenVars, gateVars>>

\* handleWaiting, line 35, the listener session s put on the sink (line 65).
\* The sink queues its events, so one may arrive after a pause.
handleWaiting(s) ==
    /\ s \in sinkListeners
    /\ isBuffering' = TRUE
    /\ lastEvent' = "handleWaiting"
    /\ UNCHANGED <<url, isPlaying, volume, currentTime, duration, loading,
                   error, playbackSpeed, showControls, qualities,
                   currentQuality, isFullscreen, showSettings, refVars,
                   engineVars, sinkVars, timerVars, fullscreenVars, gateVars>>

\* handlePlaying, line 36, the listener session s put on the sink (line 66).
handlePlaying(s) ==
    /\ s \in sinkListeners
    /\ isBuffering' = FALSE
    /\ lastEvent' = "handlePlaying"
    /\ UNCHANGED <<url, isPlaying, volume, currentTime, duration, loading,
                   error, playbackSpeed, showControls, qualities,
                   currentQuality, isFullscreen, showSettings, refVars,
                   engineVars, sinkVars, timerVars, fullscreenVars, gateVars>>

\* The buttons of the Quality list exist while the menu is open, one for each
\* element of qualities (lines 401-424).
QualityButtons == {qualities[i].level : i \in 1..Len(qualities)}

\* handleQualityChange, lines 158-164.
handleQualityChange(level) ==
    /\ Rendered
    /\ showSettings
    /\ level \in QualityButtons
    /\ hlsCurrentLevel' = IF hlsRef # NoEngine THEN level ELSE hlsCurrentLevel
    /\ currentQuality' = IF hlsRef # NoEngine THEN level ELSE currentQuality
    /\ showSettings' = IF hlsRef # NoEngine THEN FALSE ELSE showSettings
    /\ quiet' = 0
    /\ lastEvent' = "handleQualityChange"
    /\ UNCHANGED <<url, isPlaying, volume, currentTime, duration, loading,
                   error, playbackSpeed, showControls, qualities,
                   isBuffering, isFullscreen, refVars, hlsSupported,
                   canPlayNatively, engineCount, liveEngines, parsedEngines,
                   sinkListeners, sinkVars, timers, fullscreenVars,
                   gateVars>>

\* The sections of the settings panel the render shows, lines 371-430: the
\* panel exists while showSettings is set; it always holds the Playback
\* Speed grid, and the Quality list when qualities is not empty.
SettingsScreens ==
    IF ~(Rendered /\ showSettings) THEN {}
    ELSE {"Playback"} \cup (IF Len(qualities) > 0 THEN {"Quality"} ELSE {})

\* The player's mode, as the render derives it (lines 212, 247, 309).
PlayerState ==
    IF error # None THEN "Error"
    ELSE IF loading THEN "Loading"
    ELSE IF isBuffering THEN "Buffering"
    ELSE IF isPlaying THEN "Playing"
    ELSE "Paused"

NextSession ==
    \/ \E u \in Locators : urlChange(u)
    \/ \E e \in liveEngines, m \in Manifests : manifestParsed(e, m)
    \/ \E e \in liveEngines, fatal \in BOOLEAN : engineError(e, fatal)
    \/ \E s \in sinkListeners : handleWaiting(s)
    \/ \E s \in sinkListeners : handlePlaying(s)
    \/ \E level \in QualityButtons : handleQualityChange(level)
    \/ toggleSettings
    \/ handlePlayPause

SpecSession == Init /\ [][NextSession]_vars

\* The engine of a live session reports its manifest in the end (or a fatal
\* error before it): the network answers.  Nothing else is forced to happen.
SpecSessionFair ==
    /\ SpecSession
    /\ WF_vars(\E e \in 1..MaxSessions, m \in Manifests : manifestParsed(e, m))

NextControls ==
    \/ handleMouseMove
    \/ onTouchStart
    \/ onMouseLeave
    \/ \E t \in timers : timeoutCallback(t)
    \/ Tick
    \/ toggleSettings
    \/ handlePlayPause

SpecControls == Init /\ [][NextControls]_vars


\* ------------------------------------------------------------------ time

\* The sink on `video.currentTime = t`: with the metadata known it seeks,
\* and a seek is clamped to the media; before that it keeps t as its start
\* position.
SinkSeek(t) ==
    IF videoDuration = NaN THEN t ELSE Clamp(t, 0, videoDuration)

\* The sink has ended playback: it pauses itself.
SinkEnded(t) == videoDuration # NaN /\ t >= videoDuration

\* lines 133-135: percentage * duration for a pointer at offsetX pixels from
\* the left edge of the bar.  The durations of the model are multiples of
\* BarWidth, so the division is exact.
NewTime(offsetX, d) == (offsetX * d) \div BarWidth

\* handleTimeSeek, lines 129-141: onClick / onTouchStart of the progress
\* bar.  With duration NaN newTime is NaN, and the assignment to
\* video.currentTime throws before setCurrentTime runs.
handleTimeSeek(offsetX) ==
    /\ Rendered
    /\ offsetX \in SeekOffsets
    /\ LET newTime == NewTime(offsetX, duration)
       IN IF duration = NaN
          THEN UNCHANGED <<currentTime, videoCurrentTime, videoPaused>>
          ELSE /\ videoCurrentTime' = SinkSeek(newTime)
               /\ currentTime' = newTime
               /\ videoPaused' = IF SinkEnded(SinkSeek(newTime)) /\ ~videoPaused
                                 THEN TRUE ELSE videoPaused
    /\ quiet' = 0
    /\ lastEvent' = "handleTimeSeek"
    /\ UNCHANGED <<url, isPlaying, volume, duration, loading, error,
                   playbackSpeed, showControls, qualities, currentQuality,
                   isBuffering, isFullscreen, showSettings, refVars,
                   engineVars, videoVolume, videoDuration, videoPlaybackRate,
                   timers, fullscreenVars, gateVars>>

\* handleSkip, lines 166-170: video.currentTime += seconds.  The desktop
\* layout always renders the two skip buttons (lines 312-327).
handleSkip(seconds) ==
    /\ Rendered
    /\ seconds \in {SkipSeconds, 0 - SkipSeconds}
    /\ videoDuration = NaN =>
          (videoCurrentTime + seconds) \in (0 - SkipSeconds)..SkipSeconds
    /\ videoCurrentTime' = SinkSeek(videoCurrentTime + seconds)
    /\ videoPaused' = IF SinkEnded(SinkSeek(videoCurrentTime + seconds))
                         /\ ~videoPaused
                      THEN TRUE ELSE videoPaused
    /\ quiet' = 0
    /\ lastEvent' = "handleSkip"
    /\ UNCHANGED <<url, uiVars, refVars, engineVars, videoVolume,
                   videoDuration, videoPlaybackRate, timers, fullscreenVars,
                   gateVars>>

\* handleTimeUpdate, lines 80-83: the sink's timeupdate signal.  The
\* listener is put on the sink once (lines 85-86) and stays.
handleTimeUpdate ==
    /\ currentTime' = videoCurrentTime
    /\ duration' = videoDuration
    /\ lastEvent' = "handleTimeUpdate"
    /\ UNCHANGED <<url, isPlaying, volume, loading, error, playbackSpeed,
                   showControls, qualities, currentQuality, isBuffering,
                   isFullscreen, showSettings, refVars, engineVars, sinkVars,
                   timerVars, fullscreenVars, gateVars>>

\* The sink learns the duration d of the media the attached engine feeds it;
\* it then seeks to the start position it was given.
sinkLoadedMetadata(d) ==
    /\ d \in Durations
    /\ videoDuration = NaN
    /\ hlsRef \in liveEngines
    /\ hlsRef \in parsedEngines
    /\ videoDuration' = d
    /\ videoCurrentTime' = Clamp(videoCurrentTime, 0, d)
    /\ videoPaused' = IF videoCurrentTime >= d THEN TRUE ELSE videoPaused
    /\ lastEvent' = "sinkLoadedMetadata"
    /\ UNCHANGED <<url, uiVars, refVars, engineVars, videoVolume,
                   videoPlaybackRate, timerVars, fullscreenVars, gateVars>>

\* The sink plays one second of media; at the end of the media it has ended
\* playback and pauses itself.
sinkAdvance ==
    /\ ~videoPaused
    /\ videoDuration # NaN
    /\ videoCurrentTime < videoDuration
    /\ videoCurrentTime' = videoCurrentTime + 1
    /\ videoPaused' = SinkEnded(videoCurrentTime + 1)
    /\ lastEvent' = "sinkAdvance"
    /\ UNCHANGED <<url, uiVars, refVars, engineVars, videoVolume,
                   videoDuration, videoPlaybackRate, timerVars,
                   fullscreenVars, gateVars>>

NextTime ==
    \/ \E offsetX \in SeekOffsets : handleTimeSeek(offsetX)
    \/ \E seconds \in {SkipSeconds, 0 - SkipSeconds} : handleSkip(seconds)
    \/ handleTimeUpdate
    \/ \E d \in Durations : sinkLoadedMetadata(d)
    \/ sinkAdvance
    \/ handlePlayPause
    \/ \E e \in liveEngines, m \in Manifests : manifestParsed(e, m)

SpecTime == Init /\ [][NextTime]_vars

\* ------------------------------------------------------- the time labels

\* A string is the sequence of its characters.
Digits == <<"0", "1", "2", "3", "4", "5", "6", "7", "8", "9">>

\* Number.prototype.toString() of a whole number n >= 0.
RECURSIVE toString(_)
toString(n) ==
    IF n < 10 THEN <<Digits[n + 1]>>
    ELSE Append(toString(n \div 10), Digits[(n % 10) + 1])

\* A padStart that would pad nothing.
PadStartNone(str, targetLength, padString) == str

\* String.prototype.padStart(targetLength, padString), padString being one
\* character.
PadStart(str, targetLength, padString) ==
    IF Len(str) >= targetLength THEN str
    ELSE [i \in 1..(targetLength - Len(str)) |-> padString] \o str

\* formatTime, lines 172-177, of a whole number of seconds >= 0.
formatTime(seconds) ==
    LET h == seconds \div 3600
        m == (seconds % 3600) \div 60
        sec == seconds % 60
    IN (IF h > 0 THEN toString(h) \o <<":">> ELSE << >>)
          \o PadStart(toString(m), 2, "0") \o <<":">>
          \o PadStart(toString(sec), 2, "0")

\* lines 284 and 358: the labels the render shows.
CurrentTimeLabel == formatTime(currentTime)
DurationLabel == formatTime(duration)

\* The duration of the long media, and the times the sink may report.
FormatDuration == 3600 * MaxHours + 61
FormatTimes == 0..FormatDuration

\* The player some time into a long media: the manifest is parsed, the sink
\* has its metadata, is paused at time t, and has reported t and the
\* duration in a timeupdate.
InitFormat ==
    /\ url = 1
    /\ isPlaying = FALSE
    /\ volume = VolumeMax
    /\ currentTime \in FormatTimes
    /\ duration = FormatDuration
    /\ loading = FALSE
    /\ error = None
    /\ playbackSpeed = 100
    /\ showControls = TRUE
    /\ qualities = AvailableQualities(<<LevelHeight(1)>>)
    /\ currentQuality = InitialQuality
    /\ isBuffering = FALSE
    /\ isFullscreen = FALSE
    /\ showSettings = FALSE
    /\ controlsTimeoutRef = NoTimer
    /\ hlsSupported = TRUE
    /\ canPlayNatively = FALSE
    /\ engineCount = 1
    /\ hlsRef = 1
    /\ liveEngines = {1}
    /\ parsedEngines = {1}
    /\ hlsCurrentLevel = AutoLevel
    /\ sinkListeners = {1}
    /\ videoPaused = TRUE
    /\ videoVolume = VolumeMax
    /\ videoCurrentTime = currentTime
    /\ videoDuration = FormatDuration
    /\ videoPlaybackRate = 100
    /\ timers = {}
    /\ quiet = 0
    /\ fullscreenElement = FALSE
    /\ fullscreenChangeQueued = FALSE
    /\ viewLogs = {}
    /\ granted = {}
    /\ lastEvent = "handleTimeUpdate"

NextFormat ==
    \/ handleTimeUpdate
    \/ handlePlayPause
    \/ toggleSettings

SpecFormat == InitFormat /\ [][NextFormat]_vars

\* ------------------------------------------------------- volume and rate

\* handleVolumeChange, lines 121-127: onChange of the slider at value v.
handleVolumeChange(v) ==
    /\ Rendered
    /\ v \in VolumeSteps
    /\ volume' = v
    /\ videoVolume' = v
    /\ quiet' = 0
    /\ lastEvent' = "handleVolumeChange"
    /\ UNCHANGED <<url, isPlaying, currentTime, duration, loading, error,
                   playbackSpeed, showControls, qualities, currentQuality,
                   isBuffering, isFullscreen, showSettings, refVars,
                   engineVars, videoPaused, videoCurrentTime, videoDuration,
                   videoPlaybackRate, timers, fullscreenVars, gateVars>>

\* line 334: setVolume(volume === 0 ? 1 : 0).
MuteToggle(v) == IF v = 0 THEN VolumeMax ELSE 0

\* onClick of the volume button, lines 333-336.  It writes the state only.
muteClick ==
    /\ Rendered
    /\ volume' = MuteToggle(volume)
    /\ quiet' = 0
    /\ lastEvent' = "muteClick"
    /\ UNCHANGED <<url, isPlaying, currentTime, duration, loading, error,
                   playbackSpeed, showControls, qualities, currentQuality,
                   isBuffering, isFullscreen, showSettings, refVars,
                   engineVars, sinkVars, timers, fullscreenVars, gateVars>>

\* handleSpeedChange, lines 151-156: a button of the Playback Speed grid of
\* the open menu (lines 384-397).
handleSpeedChange(speed) ==
    /\ Rendered
    /\ showSettings
    /\ speed \in Speeds
    /\ playbackSpeed' = speed
    /\ videoPlaybackRate' = speed
    /\ quiet' = 0
    /\ lastEvent' = "handleSpeedChange"
    /\ UNCHANGED <<url, isPlaying, volume, currentTime, duration, loading,
                   error, showControls, qualities, currentQuality,
                   isBuffering, isFullscreen, showSettings, refVars,
                   engineVars, videoPaused, videoVolume, videoCurrentTime,
                   videoDuration, timers, fullscreenVars, gateVars>>

NextAudio ==
    \/ \E v \in VolumeSteps : handleVolumeChange(v)
    \/ muteClick
    \/ \E speed \in Speeds : handleSpeedChange(speed)
    \/ toggleSettings

SpecAudio == Init /\ [][NextAudio]_vars

\* ------------------------------------------------------------- fullscreen

\* A toggleFullscreen that would set the flag before the platform confirms.
toggleFullscreenOptimistic(grant) ==
    /\ Rendered
    /\ fullscreenElement' = IF grant THEN ~fullscreenElement
                            ELSE fullscreenElement
    /\ fullscreenChangeQueued' = (grant \/ fullscreenChangeQueued)
    /\ isFullscreen' = ~isFullscreen
    /\ quiet' = 0
    /\ lastEvent' = "toggleFullscreen"
    /\ UNCHANGED <<url, isPlaying, volume, currentTime, duration, loading,
                   error, playbackSpeed, showControls, qualities,
                   currentQuality, isBuffering, showSettings, refVars,
                   engineVars, sinkVars, timers, gateVars>>

\* toggleFullscreen, lines 111-119: a request to the platform, which grants
\* it or not; the handler writes no state.
toggleFullscreen(grant) ==
    /\ Rendered
    /\ fullscreenElement' = IF grant THEN ~fullscreenElement
                            ELSE fullscreenElement
    /\ fullscreenChangeQueued' = (grant \/ fullscreenChangeQueued)
    /\ quiet' = 0
    /\ lastEvent' = "toggleFullscreen"
    /\ UNCHANGED <<url, uiVars, refVars, engineVars, sinkVars, timers,
                   gateVars>>

\* The platform leaves fullscreen by itself (the Escape key).
platformExitFullscreen ==
    /\ fullscreenElement
    /\ fullscreenElement' = FALSE
    /\ fullscreenChangeQueued' = TRUE
    /\ lastEvent' = "platformExitFullscreen"
    /\ UNCHANGED <<url, uiVars, refVars, engineVars, sinkVars, timerVars,
                   gateVars>>

\* handleFullscreenChange, lines 90-92: the document's fullscreenchange.
handleFullscreenChange ==
    /\ fullscreenChangeQueued
    /\ isFullscreen' = fullscreenElement
    /\ fullscreenChangeQueued' = FALSE
    /\ lastEvent' = "handleFullscreenChange"
    /\ UNCHANGED <<url, isPlaying, volume, currentTime, duration, loading,
                   error, playbackSpeed, showControls, qualities,
                   currentQuality, isBuffering, showSettings, refVars,
                   engineVars, sinkVars, timerVars, fullscreenElement,
                   gateVars>>

NextFullscreen ==
    \/ \E grant \in BOOLEAN : toggleFullscreen(grant)
    \/ platformExitFullscreen
    \/ handleFullscreenChange

\* The fullscreen button with the controls it sits in: the pointer, the
\* timers, play/pause and the menu.
NextScreen ==
    \/ NextFullscreen
    \/ NextControls

SpecFullscreen == Init /\ [][NextScreen]_vars

\* ------------------------------------------------------- the access gate

\* '0.0.0.0', the address get-client-ip falls back to.
DefaultIp == 0

\* A request header holding one address: empty when the header is absent.
SingleValues == {<< >>} \cup {<<a>> : a \in Clients}

\* A request header holding a comma-separated list of addresses: a sequence,
\* empty when the header is absent or empty.
HeaderValues == {<< >>} \cup {<<a>> : a \in Clients}
                    \cup {<<a, b>> : a \in Clients, b \in Clients}

\* get-client-ip/index.ts, lines 4-10:
\* (x-real-ip || x-forwarded-for || '0.0.0.0').split(',')[0].trim().
ClientIp(xRealIp, xForwardedFor) ==
    IF xRealIp # << >> THEN Head(xRealIp)
    ELSE IF xForwardedFor # << >> THEN Head(xForwardedFor)
    ELSE DefaultIp

\* line 53: hours === 24 ? '24h' : '36h'.
AccessType(hours) == IF hours = 24 THEN "24h" ELSE "36h"

\* lines 30-36: the rows of view_logs for (ip, videoUrl) that have not
\* expired; .single() gives a row only when there is exactly one.
ValidRows(ip, videoUrl) ==
    {r \in viewLogs : r.ip_address = ip /\ r.video_url = videoUrl}

\* requestAccess, lines 22-65, of a gate mounted for videoUrl; `ok` is
\* whether every call to the backend succeeded.
requestAccess(videoUrl, hours, xRealIp, xForwardedFor, ok) ==
    LET ip == ClientIp(xRealIp, xForwardedFor)
        existingAccess == Cardinality(ValidRows(ip, videoUrl)) = 1
    IN /\ videoUrl \in Locators
       /\ hours \in AccessHours
       /\ viewLogs' =
             IF ok /\ ~existingAccess
             THEN viewLogs \cup {[ip_address |-> ip, video_url |-> videoUrl,
                                  access_type |-> AccessType(hours)]}
             ELSE viewLogs
       /\ granted' = IF ok THEN granted \cup {videoUrl} ELSE granted
       /\ lastEvent' = IF ok THEN "accessGranted" ELSE "accessFailed"
       /\ UNCHANGED <<url, uiVars, refVars, engineVars, sinkVars, timerVars,
                      fullscreenVars>>

\* expires_at of row r passes (line 35 no longer selects it).
expireRow(r) ==
    /\ r \in viewLogs
    /\ viewLogs' = viewLogs \ {r}
    /\ lastEvent' = "expireRow"
    /\ UNCHANGED <<url, uiVars, refVars, engineVars, sinkVars, timerVars,
                   fullscreenVars, granted>>

NextAccess ==
    \/ \E videoUrl \in Locators, hours \in AccessHours,
          xRealIp \in SingleValues, xForwardedFor \in HeaderValues,
          ok \in BOOLEAN :
            requestAccess(videoUrl, hours, xRealIp, xForwardedFor, ok)
    \/ \E r \in viewLogs : expireRow(r)
    \/ \E u \in Locators : urlChange(u)

SpecAccess == Init /\ [][NextAccess]_vars

\* ---------------------------------------------------------- the whole player

\* The session with its controls: the events of the engine and of the sink,
\* the locator, the pointer, the timers, play/pause and the menu.
NextPlayer ==
    \/ NextSession
    \/ handleMouseMove
    \/ \E t \in timers : timeoutCallback(t)
    \/ Tick
    \/ handleTimeUpdate

SpecPlayer == Init /\ [][NextPlayer]_vars

Next ==
    \/ NextControls
    \/ NextSession
    \/ NextTime
    \/ NextAudio
    \/ NextFullscreen
    \/ NextAccess

Spec == Init /\ [][Next]_vars

\* ------------------------------------------------- claims on the controls

TimerDue == \E t \in timers : t.left = 0

\* C1: in every reachable state, if isPlaying is false the controls are
\* visible (showControls = TRUE).
C1_PausedControlsVisible == ~isPlaying => showControls

\* C4: whenever isPlaying is true, no settings menu is open, an activity
\* event has armed the inactivity timer, and 3 seconds have passed without
\* any user input (and no timeout callback is still due), the controls are
\* Hidden, whatever isPlaying was when the timer was armed.
C4_AutoHideAfterDelay ==
    (/\ isPlaying
     /\ ~showSettings
     /\ controlsTimeoutRef # NoTimer
     /\ quiet >= HideDelay
     /\ ~TimerDue) => ~showControls

\* C5: a timeout callback that runs while the settings menu is open neither
\* hides the controls nor closes the menu, and opening the menu leaves the
\* controls visible.
C5_MenuSuspendsAutoHide ==
    [][/\ (showSettings /\ lastEvent' = "timeoutCallback")
          => (showSettings' /\ showControls' = showControls)
       /\ (~showSettings /\ showControls /\ lastEvent' = "toggleSettings")
          => showControls']_vars


\* ----------------------------------------------------- claims on the time

\* The duration is known: the sink has its metadata and the player has
\* committed it.
DurationKnown == videoDuration # NaN /\ duration = videoDuration

\* C7: when the duration is known, a seek to target t commits
\* max(0, min(t, duration)), and a skip of +-N seconds sends the sink to
\* max(0, min(currentTime + N, duration)), currentTime being the last time
\* the player committed.
C7_ClampedSeekAndSkip ==
    [][/\ \A offsetX \in SeekOffsets :
             (DurationKnown /\ handleTimeSeek(offsetX))
                => currentTime' = Clamp(NewTime(offsetX, duration), 0, duration)
       /\ \A seconds \in {SkipSeconds, 0 - SkipSeconds} :
             (DurationKnown /\ handleSkip(seconds))
                => videoCurrentTime' = Clamp(currentTime + seconds, 0, duration)
      ]_vars

\* C8: if the player is Playing and the sink, having played to the end of
\* the media, reports currentTime equal to duration, isPlaying becomes false
\* without a pause command.
C8_EndOfMediaPauses ==
    [][(/\ PlayerState = "Playing"
        /\ lastEvent = "sinkAdvance"
        /\ videoDuration # NaN
        /\ videoCurrentTime = videoDuration
        /\ handleTimeUpdate) => ~isPlaying']_vars

\* -------------------------------------------------- claims on the session

\* C2: a fatal error is terminal: once the player is in Error, no later
\* event (sink waiting/playing, timeupdate, manifest parsed, an engine error,
\* user input, a timer expiry, a new locator) returns it to another state.
C2_FatalErrorTerminal ==
    [][PlayerState = "Error" => PlayerState' = "Error"]_vars

\* C2 witness: the player is in Error and a buffering signal of the sink has
\* been handled since.
C2_Witness ==
    PlayerState = "Error" /\ lastEvent = "handleWaiting" /\ isBuffering

\* The quality-level set is empty and the level index is the auto sentinel.
QualityReset == qualities = << >> /\ currentQuality = AutoLevel

\* A session is attached and its manifest is not parsed yet.
AwaitingReady == hlsRef \in liveEngines /\ hlsRef \notin parsedEngines

\* C3: when the locator changes while the player is Playing, the quality set
\* is empty and the level index is the auto sentinel in the state the attach
\* of the new session leaves, and in every state after it until the new
\* session's manifest is parsed.
C3_SwitchResetsQualities ==
    [][/\ (PlayerState = "Playing" /\ url' # url /\ AwaitingReady')
          => QualityReset'
       /\ (engineCount > 1 /\ AwaitingReady /\ QualityReset
              /\ hlsRef' = hlsRef /\ AwaitingReady')
          => QualityReset']_vars

\* C10: at most one engine is live, and every live engine and every
\* waiting/playing listener on the sink belongs to the session attached
\* last, so no event of an older session can be delivered.
C10_OneLiveSession ==
    /\ Cardinality(liveEngines) <= 1
    /\ liveEngines \subseteq {hlsRef}
    /\ sinkListeners \subseteq liveEngines
    /\ hlsRef \in liveEngines => hlsRef = engineCount

\* C10 witness: the locator has changed and the engine created for the new
\* locator is the live one.
C10_Witness ==
    /\ lastEvent = "urlChange"
    /\ engineCount > 1
    /\ liveEngines = {engineCount}
    /\ sinkListeners = {engineCount}

\* ---------------------------------------------------- claims on the volume

\* C6: for every volume v > 0 the slider has just set, muting and then
\* un-muting restores the volume to exactly v.
C6_MuteRoundTrip ==
    (lastEvent = "handleVolumeChange" /\ volume > 0)
        => /\ MuteToggle(volume) = 0
           /\ MuteToggle(MuteToggle(volume)) = volume

\* ------------------------------------------------------ claims on the gate

\* C9: a media session is attached for a locator only after the access gate
\* granted access for that locator.
C9_AttachOnlyAfterGrant == hlsRef \in liveEngines => url \in granted

\* ------------------------------------------------ claims on a fatal error

\* C11: a fatal error tears the session down: in the state a fatal engine
\* error leaves, the engine of the session is destroyed and its listeners
\* are off the sink, so no event of that session can be delivered.
C11_FatalErrorTearsDown ==
    lastEvent = "fatalError"
        => (hlsRef \notin liveEngines /\ hlsRef \notin sinkListeners)

\* C12: when the player is in Error and a different locator is supplied, a
\* new session is attached and the player is in Loading with no load error.
C12_NewLocatorLeavesError ==
    [][(PlayerState = "Error" /\ url' # url)
          => /\ hlsRef' \in liveEngines'
             /\ hlsRef' # hlsRef
             /\ error' = None
             /\ PlayerState' = "Loading"]_vars

\* ------------------------------------------------ claims on the fullscreen

\* C13: isFullscreen is written only by the fullscreen-change signal: a
\* fullscreen request or exit leaves it unchanged, no other step changes
\* it, and after every fullscreen-change signal it equals whether the
\* platform has a fullscreen element.
C13_FullscreenMirrorsPlatform ==
    [][/\ (lastEvent' = "toggleFullscreen") => isFullscreen' = isFullscreen
       /\ (isFullscreen' # isFullscreen)
             => lastEvent' = "handleFullscreenChange"
       /\ (lastEvent' = "handleFullscreenChange")
             => isFullscreen' = fullscreenElement']_vars

\* C13 witness: a fullscreen-change signal has been handled some time after
\* the last user input (as after Escape), and the flag is false as the
\* platform has no fullscreen element.
C13_Witness ==
    /\ lastEvent = "handleFullscreenChange"
    /\ ~isFullscreen
    /\ ~fullscreenElement
    /\ quiet > 0

\* ---------------------------------------------------- claims on the attach

\* The engine is not supported and the sink can play the source itself.
NativeAttachable == ~hlsSupported /\ canPlayNatively

\* C14: when the adaptive-streaming engine is not supported by the runtime
\* but the sink can play the source natively, the player eventually leaves
\* Loading.
C14_NativeFallbackLeavesLoading == NativeAttachable ~> ~loading

\* --------------------------------------------------- claims on the menu

\* C15: the open settings menu has exactly one active screen out of Main,
\* Playback and Quality (so that leaving Quality can return to Main alone).
C15_OneSettingsScreen ==
    (Rendered /\ showSettings)
        => \E screen \in {"Main", "Playback", "Quality"} :
              SettingsScreens = {screen}

\* ------------------------------------------ more claims on the controls

\* C16: a pointer leave while isPlaying is true hides the controls in that
\* very step, with the inactivity timer left as it was, and closes the
\* settings menu; a pointer leave while isPlaying is false changes neither
\* the controls visibility nor the menu.
C16_PointerLeaveHidesAtOnce ==
    [][(lastEvent' = "onMouseLeave")
          => /\ timers' = timers
             /\ isPlaying => (~showControls' /\ ~showSettings')
             /\ ~isPlaying => /\ showControls' = showControls
                               /\ showSettings' = showSettings]_vars

\* C16 witness: the pointer left while playing with the menu open and a
\* timeout still pending: the controls are hidden and the menu is closed
\* although the timeout has not run.
C16_Witness ==
    /\ lastEvent = "onMouseLeave"
    /\ isPlaying
    /\ ~showControls
    /\ ~showSettings
    /\ \E t \in timers : t.left > 0 /\ t.isPlaying

\* C17: the inactivity timer is single-instance: at most one timeout is
\* pending, and after a pointer-move or touch-start the pending one is the
\* timeout that event armed, with the whole delay to go, so a hide fires
\* only 3 seconds after the most recent activity event.
C17_SingleTimer ==
    [][/\ Cardinality(timers') <= 1
       /\ (lastEvent' \in {"handleMouseMove", "onTouchStart"})
             => timers' = {[inRef |-> TRUE, left |-> HideDelay,
                            isPlaying |-> isPlaying]}]_vars

\* C17 witness: a touch-start came while playing and the only pending
\* timeout is the one it armed, held by controlsTimeoutRef.
C17_Witness ==
    /\ lastEvent = "onTouchStart"
    /\ isPlaying
    /\ controlsTimeoutRef = TimerHandle
    /\ timers = {[inRef |-> TRUE, left |-> HideDelay, isPlaying |-> TRUE]}

\* ------------------------------------------------ claims on the time labels

IsDigit(c) == \E d \in 1..10 : Digits[d] = c
DigitValue(c) == (CHOOSE d \in 1..10 : Digits[d] = c) - 1

\* The number a sequence of digits writes.
RECURSIVE Value(_)
Value(str) ==
    IF str = << >> THEN 0
    ELSE Value(SubSeq(str, 1, Len(str) - 1)) * 10 + DigitValue(str[Len(str)])

\* str is MM:SS: two digits, a colon, two digits.
IsMMSS(str) ==
    /\ Len(str) = 5
    /\ str[3] = ":"
    /\ \A i \in {1, 2, 4, 5} : IsDigit(str[i])
    /\ Value(SubSeq(str, 1, 2)) < 60
    /\ Value(SubSeq(str, 4, 5)) < 60

\* str writes n seconds as MM:SS when n < 3600, and as H:MM:SS with an hour
\* of no leading zero when n >= 3600.
Writes(str, n) ==
    IF n < 3600
    THEN /\ IsMMSS(str)
         /\ Value(SubSeq(str, 1, 2)) * 60 + Value(SubSeq(str, 4, 5)) = n
    ELSE LET k == Len(str) - 6
             hour == SubSeq(str, 1, k)
             rest == SubSeq(str, k + 2, k + 6)
         IN /\ k >= 1
            /\ \A i \in 1..k : IsDigit(hour[i])
            /\ hour[1] # "0"
            /\ str[k + 1] = ":"
            /\ IsMMSS(rest)
            /\ Value(hour) * 3600 + Value(SubSeq(rest, 1, 2)) * 60
                  + Value(SubSeq(rest, 4, 5)) = n

\* C18: formatTime renders a whole number of seconds n >= 0 as MM:SS with
\* two-digit zero-padded minutes and seconds when n < 3600 and as H:MM:SS
\* with an unpadded hour when n >= 3600; format(0) = "00:00",
\* format(65) = "01:05", format(3661) = "1:01:01".
C18_FormatTime ==
    /\ formatTime(0) = <<"0", "0", ":", "0", "0">>
    /\ formatTime(65) = <<"0", "1", ":", "0", "5">>
    /\ formatTime(3661) = <<"1", ":", "0", "1", ":", "0", "1">>
    /\ currentTime >= 0 => Writes(CurrentTimeLabel, currentTime)
    /\ duration >= 0 => Writes(DurationLabel, duration)

\* C18 witness: the player, set playing, shows a time of more than ten hours
\* with single digit minutes and seconds.
C18_Witness ==
    /\ lastEvent = "handlePlayPause"
    /\ isPlaying
    /\ currentTime = 36000 + 61
    /\ CurrentTimeLabel = <<"1", "0", ":", "0", "1", ":", "0", "1">>

\* ------------------------------------------------ claims on the buffering

\* C19: the sink's waiting and playing signals change only isBuffering:
\* isPlaying, currentTime, volume, the playback rate, the quality and the
\* error are left as they were, so isPlaying after a buffering episode is
\* what it was before; a playing signal while Paused leaves the player
\* Paused.
C19_BufferingKeepsIntent ==
    [][(lastEvent' \in {"handleWaiting", "handlePlaying"})
          => /\ isBuffering' = (lastEvent' = "handleWaiting")
             /\ UNCHANGED <<isPlaying, currentTime, volume, playbackSpeed,
                            currentQuality, hlsCurrentLevel, error,
                            videoPaused, videoVolume, videoPlaybackRate>>
             /\ (PlayerState = "Paused" /\ lastEvent' = "handlePlaying")
                   => PlayerState' = "Paused"]_vars

\* C19 witness: the player is Playing again after the sink stalled and
\* resumed, with a quality the user selected.
C19_Witness ==
    /\ lastEvent = "handlePlaying"
    /\ PlayerState = "Playing"
    /\ ~videoPaused
    /\ currentQuality > InitialQuality

\* ------------------------------------------------- claims on the quality

\* C20: in every reachable state the current quality index is the auto
\* sentinel or the index of a level of the current quality-level set.
C20_QualityIndexInSet ==
    currentQuality = AutoLevel \/ currentQuality \in QualityButtons

\* ------------------------------------------ claims on the non-fatal errors

\* C21: an engine error whose fatal flag is false changes no player state:
\* error stays as it was (none stays none), loading, isBuffering, isPlaying
\* and the quality set are unchanged, and a player that is not in Error does
\* not enter it.
C21_NonFatalErrorAbsorbed ==
    [][(lastEvent' = "nonFatalError")
          => /\ UNCHANGED <<uiVars, refVars, sinkVars>>
             /\ (error = None) => (error' = None)
             /\ PlayerState' = PlayerState]_vars

\* C21 witness: a non-fatal error of the engine came while the player was
\* Playing a stream with quality levels, and the player is Playing still.
C21_Witness ==
    /\ lastEvent = "nonFatalError"
    /\ PlayerState = "Playing"
    /\ ~videoPaused
    /\ Len(qualities) > 0

\* ------------------------------------------- more claims on the volume

\* C22: after any sequence of volume-slider changes and mute-button
\* toggles, the volume held in the state equals the volume of the sink.
C22_VolumeInSync == volume = videoVolume

====
